---- MODULE Spec2Model ----
(***************************************************************************)
(* Time-Capsule: the account-lockout policy (models/User, controllers/     *)
(* users) and the two-factor-authentication state machine (controllers/    *)
(* twoFactorAuth) acting on one persisted User document.                   *)
(*                                                                         *)
(* Every handler is cut at the awaits that touch the database: a read of   *)
(* the document gives the request its own in-memory copy (doc), and the    *)
(* update it sends later is applied to whatever the collection holds at    *)
(* that moment.  Requests of different clients interleave between these    *)
(* steps.  name, email, role and createdAt of the user are not modelled.   *)
(*                                                                         *)
(* The capsule routes (controllers/capsules) act on a second collection:   *)
(* createCapsule, the three reads, updateCapsule cut between its findById  *)
(* and its findByIdAndUpdate, and deliverCapsules cut at every sendMail    *)
(* and save, so that delivery runs and updates interleave.                 *)
(***************************************************************************)
EXTENDS Integers, Sequences, FiniteSets, TLC

\* ---------------------------------------------------------------- bounds
Procs == {1, 2}            \* requests that may be in flight together
StartTime == 60000         \* Date.now() of the initial state (ms)
MaxTicks == 1              \* how often the clock advances in a run
MaxOverlaps == 1           \* SpecConc: how often a request arrives while another is in flight
NSecrets == 1              \* distinct base32 secrets speakeasy may draw
NDraws == 2                \* distinct outcomes of the ten Math.random draws
NCaps == 1                 \* capsules that may be created
MaxDays == 1               \* how often the date of the capsule routes advances
MaxSent == 2               \* emails sent for one capsule before the model stops sending

\* ------------------------------------------------------- program constants
Null == -1                 \* null / undefined of a Date, a String
MaxAttempts == 5
LockDuration == 1 * 60 * 60 * 1000
Window == 1
NumBackupCodes == 10

Secrets == 1..NSecrets
Draws == 1..NDraws
Passwords == {1, 2}         \* the password of the registration and another one
NewPasswords == {1}        \* what a profile update sets the password to
NoToken == 0               \* req.body.token absent (falsy)
NoCode == 0                \* req.body.backupCode absent (falsy)
Caps == 1..NCaps
Users == {1, 2}            \* req.user.id of the callers of the capsule routes
Anyone == 0                \* the caller of a route that reads no req.user
Runs == {1, 2}             \* deliverCapsules runs that may be in flight together

\* ------------------------------------------------------------ primitives
\* bcrypt.hash / bcrypt.compare: a one-way image of the plaintext; compare
\* is true exactly for the plaintext that was hashed.
bcryptHash(plain) == 1000 + plain
bcryptCompare(plain, hashed) == bcryptHash(plain) = hashed

\* speakeasy: 30 s time steps; the code of secret s in step c.
TotpStep(t) == t \div 30000
TotpCode(s, c) == c * (NSecrets + 2) + s
\* totpVerify with a window one step too wide on either side
totpVerify_wide(secret, token, t) ==
    \E d \in (0 - Window - 1)..(Window + 1) : TotpCode(secret, TotpStep(t) + d) = token

\* totpVerify accepting the code of the current step only
totpVerify_narrow(secret, token, t) ==
    TotpCode(secret, TotpStep(t)) = token

\* speakeasy.totp.verify({secret, token, window: 1})
totpVerify(secret, token, t) ==
    \E d \in (0 - Window)..Window : TotpCode(secret, TotpStep(t) + d) = token

\* ------------------------------------------------------------------ state
VARIABLES
    user,         \* the persisted User document
    session,      \* req.session.twoFactorSecret of the user's session
    now,          \* Date.now()
    ticks,        \* clock advances so far
    pc,           \* per request slot: where its handler stands
    doc,          \* per request slot: what the handler holds in memory
    overlapsLeft, \* arrivals still allowed while another request is in flight
    pwStepDone,   \* history: some loginUser has answered twoFactorRequired
    streak,       \* history: wrong-password logins in a row since the fresh state
    ev,           \* the response sent by the last step, NoEvent if it sent none
    capsules,     \* the Capsule collection, by _id
    today,        \* new Date() of the capsule routes
    sent,         \* per capsule: the emails sendMail has sent for it
    run,          \* per deliverCapsules run: where it stands and what it holds
    upd,          \* the updateCapsule request in flight, if any
    cev           \* the response a capsule route sent on the last step

capVars == <<capsules, today, sent, run, upd, cev>>
userVars == <<user, session, now, ticks, pc, doc, overlapsLeft, pwStepDone, streak, ev>>
vars == <<user, session, now, ticks, pc, doc, overlapsLeft, pwStepDone, streak, ev,
          capsules, today, sent, run, upd, cev>>

Broken == -2               \* streak: the run of failures was interrupted
NoDoc == <<>>

\* User.create({name, email, password}): the schema defaults; the pre-save
\* hook stores the bcrypt hash of the password.
NewUser(password) ==
    [ password             |-> bcryptHash(password),
      twoFactorEnabled     |-> FALSE,
      twoFactorSecret      |-> Null,
      twoFactorBackupCodes |-> <<>>,
      loginAttempts        |-> 0,
      accountLocked        |-> FALSE,
      lockUntil            |-> Null,
      lastLogin            |-> Null ]

NoEvent == [op |-> "none", status |-> 0, msg |-> "", token |-> FALSE, codes |-> <<>>]

\* res.status(status).json({...}): token says whether the body carries a JWT;
\* codes is the backupCodes of the body (for verify2FALogin: the backup code
\* the request was accepted with)
Response(op, status, msg, token) ==
    [op |-> op, status |-> status, msg |-> msg, token |-> token, codes |-> <<>>]

\* ----------------------------------------------------------- User methods
\* matchPassword accepting every password
matchPassword_any(this, enteredPassword) ==
    TRUE

matchPassword(this, enteredPassword) ==
    bcryptCompare(enteredPassword, this.password)

isLocked(this, t) == this.lockUntil # Null /\ this.lockUntil > t

\* incrementLoginAttempts locking one failure late (> where the code has >=)
incrementLoginAttempts_late(this, u, t) ==
    IF this.lockUntil # Null /\ this.lockUntil < t
    THEN [u EXCEPT !.loginAttempts = 1,
                   !.lockUntil = Null,
                   !.accountLocked = FALSE]
    ELSE IF this.loginAttempts + 1 > MaxAttempts
    THEN [u EXCEPT !.loginAttempts = @ + 1,
                   !.lockUntil = t + LockDuration,
                   !.accountLocked = TRUE]
    ELSE [u EXCEPT !.loginAttempts = @ + 1]

\* incrementLoginAttempts writing lockUntil without the accountLocked flag
incrementLoginAttempts_flagless(this, u, t) ==
    IF this.lockUntil # Null /\ this.lockUntil < t
    THEN [u EXCEPT !.loginAttempts = 1,
                   !.lockUntil = Null,
                   !.accountLocked = FALSE]
    ELSE IF this.loginAttempts + 1 >= MaxAttempts
    THEN [u EXCEPT !.loginAttempts = @ + 1,
                   !.lockUntil = t + LockDuration]
    ELSE [u EXCEPT !.loginAttempts = @ + 1]

\* incrementLoginAttempts restarting the count at 0 after an expired lock
incrementLoginAttempts_zero(this, u, t) ==
    IF this.lockUntil # Null /\ this.lockUntil < t
    THEN [u EXCEPT !.loginAttempts = 0,
                   !.lockUntil = Null,
                   !.accountLocked = FALSE]
    ELSE IF this.loginAttempts + 1 >= MaxAttempts
    THEN [u EXCEPT !.loginAttempts = @ + 1,
                   !.lockUntil = t + LockDuration,
                   !.accountLocked = TRUE]
    ELSE [u EXCEPT !.loginAttempts = @ + 1]

\* The update incrementLoginAttempts sends, applied to the stored document
\* u: the conditions are read from the in-memory copy (this), $inc acts on
\* the stored counter.
incrementLoginAttempts(this, u, t) ==
    IF this.lockUntil # Null /\ this.lockUntil < t
    THEN [u EXCEPT !.loginAttempts = 1,
                   !.lockUntil = Null,
                   !.accountLocked = FALSE]
    ELSE IF this.loginAttempts + 1 >= MaxAttempts
    THEN [u EXCEPT !.loginAttempts = @ + 1,
                   !.lockUntil = t + LockDuration,
                   !.accountLocked = TRUE]
    ELSE [u EXCEPT !.loginAttempts = @ + 1]

\* resetLoginAttempts without the lastLogin stamp
resetLoginAttempts_noStamp(u, t) ==
    [u EXCEPT !.loginAttempts = 0,
              !.lockUntil = Null,
              !.accountLocked = FALSE]

\* resetLoginAttempts clearing lockUntil but not the accountLocked flag
resetLoginAttempts_keepsFlag(u, t) ==
    [u EXCEPT !.loginAttempts = 0,
              !.lockUntil = Null,
              !.lastLogin = t]

\* updateOne({$set: {loginAttempts: 0, lockUntil: null, accountLocked: false,
\* lastLogin: Date.now()}})
resetLoginAttempts(u, t) ==
    [u EXCEPT !.loginAttempts = 0,
              !.lockUntil = Null,
              !.accountLocked = FALSE,
              !.lastLogin = t]

\* ------------------------------------------------------ streak bookkeeping
LockFields(u) == <<u.loginAttempts, u.lockUntil, u.accountLocked>>
Quiet(pcs) == \A q \in Procs : pcs[q] = "idle"
Fresh(u) == u.lockUntil = Null /\ u.loginAttempts = 0 /\ ~u.accountLocked

\* After a step that is not a completed wrong-password login: the count
\* starts again in the fresh state with nothing in flight, stands while the
\* account is untouched and no other request moves, and is broken otherwise.
StreakOther(u2, pc2) ==
    IF Quiet(pc2) /\ Fresh(u2) THEN 0
    ELSE IF LockFields(u2) = LockFields(user) /\ streak # Broken /\ pc2 = pc THEN streak
    ELSE Broken

\* ------------------------------------------------------- capsule records
\* A slot of the collection no capsule has been created in.
NoCapsule ==
    [ sender |-> 0, isPublic |-> FALSE, status |-> "none",
      deliveryDate |-> Null, deliveredAt |-> Null, message |-> 0 ]

\* Capsule.create: the schema defaults, sender set by the controller.
NewCapsule(sender, isPublic, deliveryDate) ==
    [ sender |-> sender, isPublic |-> isPublic, status |-> "pending",
      deliveryDate |-> deliveryDate, deliveredAt |-> Null, message |-> 1 ]

\* A deliverCapsules run that is not under way.
IdleRun ==
    [ pc |-> "idle", queue |-> <<>>, currentDate |-> Null,
      selected |-> {}, sentOk |-> {}, stamped |-> FALSE ]

IdleUpdate == [pc |-> "idle", id |-> 0, requester |-> 0, body |-> <<>>]

\* What a capsule route answers: data are the _ids of the capsules whose
\* content the response carries.
CapResponse(op, status, requester, data) ==
    [op |-> op, status |-> status, requester |-> requester, data |-> data]
NoCapEvent == CapResponse("none", 0, Anyone, {})

InitState ==
    /\ capsules = [c \in Caps |-> NoCapsule]
    /\ today = 0
    /\ sent = [c \in Caps |-> 0]
    /\ run = [r \in Runs |-> IdleRun]
    /\ upd = IdleUpdate
    /\ cev = NoCapEvent
    /\ user = NewUser(1)
    /\ session = Null
    /\ now = StartTime
    /\ ticks = 0
    /\ pc = [p \in Procs |-> "idle"]
    /\ doc = [p \in Procs |-> NoDoc]
    /\ pwStepDone = FALSE
    /\ streak = 0
    /\ ev = NoEvent

\* Requests arrive one after the other, each when the one before it is done.
Init == InitState /\ overlapsLeft = 0

\* Requests may arrive while another is between its read and its last write.
InitConc == InitState /\ overlapsLeft = MaxOverlaps

\* -------------------------------------------------------------- the clock
\* Time reaches the handlers through their comparisons with lockUntil and
\* through the lockUntil they write (the codes a client submits are drawn
\* relative to the current step), so the clock is moved to the instants that
\* tell these apart: while a lock is stored, to lockUntil itself or to the
\* millisecond after it; otherwise by a millisecond.
Instants ==
    IF user.lockUntil = Null THEN {now + 1}
    ELSE {user.lockUntil, user.lockUntil + 1}

Tick(t) ==
    /\ ticks < MaxTicks
    /\ t \in Instants
    /\ now < t
    /\ now' = t
    /\ ticks' = ticks + 1
    /\ ev' = NoEvent
    /\ UNCHANGED <<user, session, pc, doc, overlapsLeft, pwStepDone, streak>>
    /\ UNCHANGED capVars

\* A request arrives.
Arrive ==
    /\ Quiet(pc) \/ overlapsLeft > 0
    /\ overlapsLeft' = IF Quiet(pc) THEN overlapsLeft ELSE overlapsLeft - 1

\* A request cut into steps takes the first free slot.
Start(p) ==
    /\ pc[p] = "idle"
    /\ \A q \in Procs : q < p => pc[q] # "idle"
    /\ Arrive

Finish(p) ==
    /\ pc' = [pc EXCEPT ![p] = "idle"]
    /\ doc' = [doc EXCEPT ![p] = NoDoc]

\* ------------------------------------------------- POST /api/users/login
\* The fields of the document loginUser goes on to use after the read.
LoginDoc(u) ==
    [ loginAttempts    |-> u.loginAttempts,
      lockUntil        |-> u.lockUntil,
      twoFactorEnabled |-> u.twoFactorEnabled ]

\* findOne, isLocked, matchPassword: up to the first update.
loginUser_find(p, password) ==
    /\ Start(p)
    /\ IF isLocked(user, now)
       THEN /\ ev' = Response("loginUser", 401, "locked", FALSE)
            /\ UNCHANGED <<pc, doc>>
            /\ streak' = streak
       ELSE /\ pc' = [pc EXCEPT ![p] =
                        IF matchPassword(user, password) THEN "reset" ELSE "increment"]
            /\ doc' = [doc EXCEPT ![p] = LoginDoc(user)]
            /\ streak' = IF Quiet(pc) /\ streak # Broken /\ ~matchPassword(user, password)
                         THEN streak ELSE Broken
            /\ ev' = NoEvent
    /\ UNCHANGED <<user, session, now, ticks, pwStepDone>>
    /\ UNCHANGED capVars

\* await user.incrementLoginAttempts(); 401 Invalid credentials
loginUser_increment(p) ==
    /\ pc[p] = "increment"
    /\ user' = incrementLoginAttempts(doc[p], user, now)
    /\ Finish(p)
    /\ streak' = IF streak >= 0 /\ streak < MaxAttempts THEN streak + 1 ELSE Broken
    /\ ev' = Response("loginUser", 401, "invalid", FALSE)
    /\ UNCHANGED <<session, now, ticks, overlapsLeft, pwStepDone>>
    /\ UNCHANGED capVars

\* await user.resetLoginAttempts(); then twoFactorRequired or the token
loginUser_reset(p) ==
    /\ pc[p] = "reset"
    /\ user' = resetLoginAttempts(user, now)
    /\ Finish(p)
    /\ streak' = StreakOther(user', pc')
    /\ ev' = IF doc[p].twoFactorEnabled
             THEN Response("loginUser", 200, "twoFactorRequired", FALSE)
             ELSE Response("loginUser", 200, "ok", TRUE)
    /\ pwStepDone' = (pwStepDone \/ doc[p].twoFactorEnabled)
    /\ UNCHANGED <<session, now, ticks, overlapsLeft>>
    /\ UNCHANGED capVars

\* ------------------------------------------------ PUT /api/users/profile
\* findById, the currentPassword checks: up to the save.  password is the
\* new password of the body (0: none, a change of name alone); a change of
\* email touches no field of the model.
updateProfile_find(p, password, currentPassword) ==
    /\ Start(p)
    /\ LET reject(msg) ==
               /\ ev' = Response("updateProfile", 400, msg, FALSE)
               /\ UNCHANGED <<pc, doc>>
       IN  IF password # 0 /\ currentPassword = 0
           THEN reject("current password required")
           ELSE IF currentPassword # 0 /\ ~matchPassword(user, currentPassword)
           THEN reject("incorrect")
           ELSE /\ pc' = [pc EXCEPT ![p] = "profile"]
                /\ doc' = [doc EXCEPT ![p] =
                             [password |-> password,
                              loginAttempts |-> user.loginAttempts]]
                /\ ev' = NoEvent
    /\ streak' = StreakOther(user, pc')
    /\ UNCHANGED <<user, session, now, ticks, pwStepDone>>
    /\ UNCHANGED capVars

\* user.password = password; user.loginAttempts = 0; save(): the pre-save
\* hook hashes the password, and save() sends the paths whose value differs
\* from the one that was read.
profileSave(this, u) ==
    IF this.password = 0 THEN u
    ELSE [u EXCEPT !.password = bcryptHash(this.password),
                   !.loginAttempts = IF this.loginAttempts # 0 THEN 0 ELSE @]

\* await user.save(); 200
updateProfile_save(p) ==
    /\ pc[p] = "profile"
    /\ user' = profileSave(doc[p], user)
    /\ Finish(p)
    /\ ev' = Response("updateProfile", 200, "ok", FALSE)
    /\ streak' = StreakOther(user', pc')
    /\ UNCHANGED <<session, now, ticks, overlapsLeft, pwStepDone>>
    /\ UNCHANGED capVars

\* ----------------------------------------------- GET /api/users/2fa/generate
\* generate2FASecret storing the new secret on the user record as well
generate2FASecret_persist(secret) ==
    /\ Arrive
    /\ session' = secret
    /\ user' = [user EXCEPT !.twoFactorSecret = secret]
    /\ ev' = Response("generate2FASecret", 200, "ok", FALSE)
    /\ streak' = StreakOther(user', pc)
    /\ UNCHANGED <<now, ticks, pc, doc, pwStepDone>>
    /\ UNCHANGED capVars

\* The protected routes are called with the JWT the registration returned.
generate2FASecret(secret) ==
    /\ Arrive
    /\ session' = secret
    /\ ev' = Response("generate2FASecret", 200, "ok", FALSE)
    /\ streak' = StreakOther(user, pc)
    /\ UNCHANGED <<user, now, ticks, pc, doc, pwStepDone>>
    /\ UNCHANGED capVars

\* The session ends (its store drops the slot).
sessionEnd ==
    /\ session # Null
    /\ session' = Null
    /\ ev' = NoEvent
    /\ UNCHANGED <<user, now, ticks, pc, doc, overlapsLeft, pwStepDone, streak>>
    /\ UNCHANGED capVars

\* ----------------------------------------------- POST /api/users/2fa/verify
\* Math.random().toString(36).substring(2, 10), ten times: an outcome is
\* named by its seed; its ten strings differ from each other and from those
\* of every other outcome.
randomCodes(seed) ==
    [i \in 1..NumBackupCodes |-> (seed - 1) * NumBackupCodes + i]

\* backupCodes.push({code: await bcrypt.hash(code, 10), used: false})
hashedBackupCodes(plain) ==
    [i \in 1..Len(plain) |-> [code |-> bcryptHash(plain[i]), used |-> FALSE]]

\* enable2FAUpdate leaving the secret out of the update
enable2FAUpdate_noSecret(u, secret, backupCodes) ==
    [u EXCEPT !.twoFactorEnabled = TRUE,
              !.twoFactorBackupCodes = backupCodes]

\* findByIdAndUpdate(id, {twoFactorSecret, twoFactorEnabled, twoFactorBackupCodes})
enable2FAUpdate(u, secret, backupCodes) ==
    [u EXCEPT !.twoFactorSecret = secret,
              !.twoFactorEnabled = TRUE,
              !.twoFactorBackupCodes = backupCodes]

\* The checks and the loop that draws and hashes the codes; seed names the
\* draw that is hashed.
verify2FAToken_verify(p, token, seed) ==
    /\ Start(p)
    /\ LET reject(msg) ==
               /\ ev' = Response("verify2FAToken", 400, msg, FALSE)
               /\ UNCHANGED <<pc, doc>>
               /\ seed = 1
       IN  IF token = NoToken
           THEN reject("no token")
           ELSE IF session = Null
           THEN reject("no secret")
           ELSE IF ~totpVerify(session, token, now)
           THEN reject("invalid")
           ELSE /\ pc' = [pc EXCEPT ![p] = "enable"]
                /\ doc' = [doc EXCEPT ![p] =
                             [secret |-> session,
                              backupCodes |-> hashedBackupCodes(randomCodes(seed))]]
                /\ ev' = NoEvent
    /\ streak' = StreakOther(user, pc')
    /\ UNCHANGED <<user, session, now, ticks, pwStepDone>>
    /\ UNCHANGED capVars

\* await User.findByIdAndUpdate(...); plainBackupCodes (seed2 names their
\* draw); delete req.session.twoFactorSecret; 200
verify2FAToken_update(p, seed2) ==
    /\ pc[p] = "enable"
    /\ user' = enable2FAUpdate(user, doc[p].secret, doc[p].backupCodes)
    /\ session' = Null
    /\ Finish(p)
    /\ ev' = [Response("verify2FAToken", 200, "enabled", FALSE)
                EXCEPT !.codes = randomCodes(seed2)]
    /\ streak' = StreakOther(user', pc')
    /\ UNCHANGED <<now, ticks, overlapsLeft, pwStepDone>>
    /\ UNCHANGED capVars

\* ---------------------------------------------- POST /api/users/2fa/disable
\* The fields of the document disable2FA assigns after the read.
DisableDoc(u) ==
    [ twoFactorEnabled |-> u.twoFactorEnabled,
      twoFactorSecret  |-> u.twoFactorSecret,
      nBackupCodes     |-> Len(u.twoFactorBackupCodes) ]

\* findById, the verification of the token or of the password: up to the
\* save.  threw: speakeasy was handed an undefined secret and raised.
disable2FA_find(p, token, password, threw) ==
    /\ Start(p)
    /\ threw => token # NoToken /\ user.twoFactorSecret = Null
    /\ LET byToken == token # NoToken /\ user.twoFactorSecret # Null
                        /\ totpVerify(user.twoFactorSecret, token, now)
           byPassword == password # 0 /\ ~byToken /\ matchPassword(user, password)
           reject(status, msg) ==
               /\ ev' = Response("disable2FA", status, msg, FALSE)
               /\ UNCHANGED <<pc, doc>>
       IN  IF token = NoToken /\ password = 0
           THEN reject(400, "missing")
           ELSE IF threw
           THEN reject(500, "error")
           ELSE IF ~(byToken \/ byPassword)
           THEN reject(400, "failed")
           ELSE /\ pc' = [pc EXCEPT ![p] = "disable"]
                /\ doc' = [doc EXCEPT ![p] = DisableDoc(user)]
                /\ ev' = NoEvent
    /\ streak' = StreakOther(user, pc')
    /\ UNCHANGED <<user, session, now, ticks, pwStepDone>>
    /\ UNCHANGED capVars

\* disable2FA clearing the secret and the codes but not the flag
disable2FASave_keepsEnabled(this, u) ==
    [u EXCEPT !.twoFactorSecret = IF this.twoFactorSecret # Null THEN Null ELSE @,
              !.twoFactorBackupCodes = IF this.nBackupCodes # 0 THEN <<>> ELSE @]

\* user.twoFactorEnabled = false; twoFactorSecret = undefined;
\* twoFactorBackupCodes = []; save(): save() sends the paths whose value
\* differs from the one that was read.
disable2FASave(this, u) ==
    [u EXCEPT !.twoFactorEnabled = IF this.twoFactorEnabled THEN FALSE ELSE @,
              !.twoFactorSecret = IF this.twoFactorSecret # Null THEN Null ELSE @,
              !.twoFactorBackupCodes = IF this.nBackupCodes # 0 THEN <<>> ELSE @]

\* Setting an array makes save() increment __v: every copy of the document
\* read before it now carries a __v behind the stored one.
versionBump(docs) ==
    [p \in Procs |->
        IF docs[p] # NoDoc /\ "versionBehind" \in DOMAIN docs[p]
        THEN [docs[p] EXCEPT !.versionBehind = TRUE]
        ELSE docs[p]]

\* await user.save(); 200
disable2FA_save(p) ==
    /\ pc[p] = "disable"
    /\ user' = disable2FASave(doc[p], user)
    /\ pc' = [pc EXCEPT ![p] = "idle"]
    /\ doc' = [IF doc[p].nBackupCodes # 0 THEN versionBump(doc) ELSE doc
                  EXCEPT ![p] = NoDoc]
    /\ ev' = Response("disable2FA", 200, "disabled", FALSE)
    /\ streak' = StreakOther(user', pc')
    /\ UNCHANGED <<session, now, ticks, overlapsLeft, pwStepDone>>
    /\ UNCHANGED capVars

\* ------------------------------------------------ POST /api/users/2fa/login
\* What the findIndex callback computes for an entry.
backupCodeMatches(backupCode, entry) ==
    bcryptCompare(backupCode, entry.code) /\ ~entry.used

\* What findIndex gets from the callback: the callback is async, so its
\* result is a Promise of that value, and a Promise is truthy whatever it
\* resolves to.
asyncCallbackResult(backupCode, entry) ==
    backupCodeMatches(backupCode, entry) \in BOOLEAN

\* Array.prototype.findIndex: the first index (from 0) whose callback result
\* is truthy, -1 when there is none.
findIndex(arr, backupCode) ==
    LET hits == {i \in 1..Len(arr) : asyncCallbackResult(backupCode, arr[i])}
    IN  IF hits = {} THEN -1
        ELSE (CHOOSE i \in hits : \A j \in hits : i <= j) - 1

\* user.twoFactorBackupCodes[backupCodeIndex].used = true, as save() sends
\* it: $set of the path twoFactorBackupCodes.<index>.used
markUsed(u, backupCodeIndex) ==
    [u EXCEPT !.twoFactorBackupCodes[backupCodeIndex + 1].used = TRUE]

\* verify2FALogin letting a user without 2FA through to the token
verify2FALogin_find_open(p, token, backupCode) ==
    /\ Start(p)
    /\ token # NoToken => backupCode = NoCode
    /\ LET idx == findIndex(user.twoFactorBackupCodes, backupCode)
           reject(msg) ==
               /\ ev' = Response("verify2FALogin", 400, msg, FALSE)
               /\ UNCHANGED <<pc, doc>>
           accept(i, code) ==
               /\ pc' = [pc EXCEPT ![p] = IF i = -1 THEN "reset2fa" ELSE "save"]
               /\ doc' = [doc EXCEPT ![p] =
                            [idx |-> i, versionBehind |-> FALSE, backupCode |-> code]]
               /\ ev' = NoEvent
       IN  IF token = NoToken /\ backupCode = NoCode
           THEN reject("missing")
           ELSE IF ~user.twoFactorEnabled
           THEN accept(-1, NoCode)
           ELSE IF token # NoToken
           THEN IF totpVerify(user.twoFactorSecret, token, now)
                THEN accept(-1, NoCode)
                ELSE reject("invalid")
           ELSE IF idx # -1
           THEN accept(idx, backupCode)
           ELSE reject("invalid")
    /\ streak' = StreakOther(user, pc')
    /\ UNCHANGED <<user, session, now, ticks, pwStepDone>>
    /\ UNCHANGED capVars

\* verify2FALogin counting a refused code as a failed login
verify2FALogin_find_counting(p, token, backupCode) ==
    /\ Start(p)
    /\ token # NoToken => backupCode = NoCode
    /\ LET idx == findIndex(user.twoFactorBackupCodes, backupCode)
           reject(msg) ==
               /\ ev' = Response("verify2FALogin", 400, msg, FALSE)
               /\ user' = IF msg = "invalid"
                          THEN incrementLoginAttempts(user, user, now)
                          ELSE user
               /\ UNCHANGED <<pc, doc>>
           accept(i, code) ==
               /\ pc' = [pc EXCEPT ![p] = IF i = -1 THEN "reset2fa" ELSE "save"]
               /\ doc' = [doc EXCEPT ![p] =
                            [idx |-> i, versionBehind |-> FALSE, backupCode |-> code]]
               /\ ev' = NoEvent
               /\ user' = user
       IN  IF token = NoToken /\ backupCode = NoCode
           THEN reject("missing")
           ELSE IF ~user.twoFactorEnabled
           THEN reject("not enabled")
           ELSE IF token # NoToken
           THEN IF totpVerify(user.twoFactorSecret, token, now)
                THEN accept(-1, NoCode)
                ELSE reject("invalid")
           ELSE IF idx # -1
           THEN accept(idx, backupCode)
           ELSE reject("invalid")
    /\ streak' = StreakOther(user', pc')
    /\ UNCHANGED <<session, now, ticks, pwStepDone>>
    /\ UNCHANGED capVars

\* findById and the verification, up to the first write.
verify2FALogin_find(p, token, backupCode) ==
    /\ Start(p)
    /\ token # NoToken => backupCode = NoCode   \* the code is not looked at then
    /\ LET idx == findIndex(user.twoFactorBackupCodes, backupCode)
           reject(msg) ==
               /\ ev' = Response("verify2FALogin", 400, msg, FALSE)
               /\ UNCHANGED <<pc, doc>>
       IN  IF token = NoToken /\ backupCode = NoCode
           THEN reject("missing")
           ELSE IF ~user.twoFactorEnabled
           THEN reject("not enabled")
           ELSE IF token # NoToken
           THEN IF totpVerify(user.twoFactorSecret, token, now)
                THEN /\ pc' = [pc EXCEPT ![p] = "reset2fa"]
                     /\ doc' = [doc EXCEPT ![p] =
                                  [idx |-> -1, versionBehind |-> FALSE,
                                   backupCode |-> NoCode]]
                     /\ ev' = NoEvent
                ELSE reject("invalid")
           ELSE IF idx # -1
           THEN /\ pc' = [pc EXCEPT ![p] = "save"]
                /\ doc' = [doc EXCEPT ![p] =
                             [idx |-> idx, versionBehind |-> FALSE,
                              backupCode |-> backupCode]]
                /\ ev' = NoEvent
           ELSE reject("invalid")
    /\ streak' = StreakOther(user, pc')
    /\ UNCHANGED <<user, session, now, ticks, pwStepDone>>
    /\ UNCHANGED capVars

\* await user.save(): the $set of an array element is sent with the __v the
\* document was read with, and refused with a VersionError when __v has moved
verify2FALogin_save(p) ==
    /\ pc[p] = "save"
    /\ IF doc[p].versionBehind
       THEN /\ user' = user
            /\ Finish(p)
            /\ ev' = Response("verify2FALogin", 500, "error", FALSE)
       ELSE /\ user' = markUsed(user, doc[p].idx)
            /\ pc' = [pc EXCEPT ![p] = "reset2fa"]
            /\ doc' = doc
            /\ ev' = NoEvent
    /\ streak' = StreakOther(user', pc')
    /\ UNCHANGED <<session, now, ticks, overlapsLeft, pwStepDone>>
    /\ UNCHANGED capVars

\* await user.resetLoginAttempts(); the token
verify2FALogin_reset(p) ==
    /\ pc[p] = "reset2fa"
    /\ user' = resetLoginAttempts(user, now)
    /\ Finish(p)
    /\ ev' = [Response("verify2FALogin", 200, "ok", TRUE)
                EXCEPT !.codes = IF doc[p].backupCode = NoCode THEN <<>>
                                 ELSE <<doc[p].backupCode>>]
    /\ streak' = StreakOther(user', pc')
    /\ UNCHANGED <<session, now, ticks, overlapsLeft, pwStepDone>>
    /\ UNCHANGED capVars

\* The codes a client may submit to a handler that verifies against secret:
\* the codes of that secret for a step inside the window or just outside it,
\* and the code of a secret the handler does not verify against.
Tokens(secret, t) ==
    {TotpCode(s, TotpStep(t) + k) :
        s \in {secret} \ {Null}, k \in (0 - Window - 1)..(Window + 1)}
        \cup {TotpCode(NSecrets + 1, TotpStep(t))}

\* The backup codes a client may submit: the plaintext of the first or of
\* the second stored entry, or a string that is the plaintext of no entry.
SubmittedCodes ==
    {c \in 1..(NDraws * NumBackupCodes) :
        \E i \in {1, 2} :
            /\ i <= Len(user.twoFactorBackupCodes)
            /\ bcryptCompare(c, user.twoFactorBackupCodes[i].code)}
        \cup {NDraws * NumBackupCodes + 1}

Next ==
    \/ \E t \in Instants : Tick(t)
    \/ \E p \in Procs, password \in Passwords : loginUser_find(p, password)
    \/ \E p \in Procs : loginUser_increment(p)
    \/ \E p \in Procs : loginUser_reset(p)
    \/ \E p \in Procs, password \in NewPasswords \cup {0},
          currentPassword \in Passwords \cup {0} :
          updateProfile_find(p, password, currentPassword)
    \/ \E p \in Procs : updateProfile_save(p)
    \/ \E secret \in Secrets : generate2FASecret(secret)
    \/ sessionEnd
    \/ \E p \in Procs, token \in Tokens(session, now) \cup {NoToken}, seed \in Draws :
          verify2FAToken_verify(p, token, seed)
    \/ \E p \in Procs, seed2 \in Draws : verify2FAToken_update(p, seed2)
    \/ \E p \in Procs, token \in Tokens(user.twoFactorSecret, now) \cup {NoToken},
          password \in Passwords \cup {0}, threw \in BOOLEAN :
          disable2FA_find(p, token, password, threw)
    \/ \E p \in Procs : disable2FA_save(p)
    \/ \E p \in Procs, token \in Tokens(user.twoFactorSecret, now) \cup {NoToken},
          backupCode \in SubmittedCodes \cup {NoCode} :
          verify2FALogin_find(p, token, backupCode)
    \/ \E p \in Procs : verify2FALogin_save(p)
    \/ \E p \in Procs : verify2FALogin_reset(p)

\* ------------------------------------------------- a write that is refused
\* The handler of the request in the slot, by the write it is waiting on.
LoginWrites == {"increment", "reset", "save", "reset2fa"}
HandlerOf(step) == IF step \in {"increment", "reset"} THEN "loginUser" ELSE "verify2FALogin"

\* a catch block that logs the error and goes on to the success response
loginWriteRejected_swallowed(p) ==
    /\ pc[p] \in LoginWrites
    /\ user' = user
    /\ Finish(p)
    /\ ev' = Response(HandlerOf(pc[p]), 200, "ok", TRUE)
    /\ streak' = StreakOther(user, pc')
    /\ UNCHANGED <<session, now, ticks, overlapsLeft, pwStepDone>>
    /\ UNCHANGED capVars

\* The update or save the handler awaits rejects (the database refuses or
\* cannot be reached): nothing is written and control passes to the catch
\* block of the handler, which answers 500.
loginWriteRejected(p) ==
    /\ pc[p] \in LoginWrites
    /\ user' = user
    /\ Finish(p)
    /\ ev' = Response(HandlerOf(pc[p]), 500, "error", FALSE)
    /\ streak' = StreakOther(user, pc')
    /\ UNCHANGED <<session, now, ticks, overlapsLeft, pwStepDone>>
    /\ UNCHANGED capVars

NextFail ==
    \/ Next
    \/ \E p \in Procs : loginWriteRejected(p)

\* One request at a time.
Spec == Init /\ [][Next]_vars

\* One request at a time, the writes of the login handlers may be refused.
SpecFail == Init /\ [][NextFail]_vars

\* Requests of several clients interleave.
SpecConc == InitConc /\ [][Next]_vars

\* ======================================================== capsule routes
\* The capsule routes act on the Capsule collection alone.  Each handler is
\* cut at its awaits; deleteCapsule is not modelled.
\* A date moves on.
capTick ==
    /\ today < MaxDays
    /\ today' = today + 1
    /\ cev' = NoCapEvent
    /\ UNCHANGED <<capsules, sent, run, upd>>
    /\ UNCHANGED userVars

\* ------------------------------------------------------ POST /api/capsules
\* validateCapsule and the schema let a deliveryDate in the future through;
\* the capsule takes the next free _id.
createCapsule(requester, isPublic) ==
    /\ \E id \in Caps :
          /\ capsules[id] = NoCapsule
          /\ \A other \in Caps : other < id => capsules[other] # NoCapsule
          /\ capsules' = [capsules EXCEPT ![id] = NewCapsule(requester, isPublic, today + 1)]
          /\ cev' = CapResponse("createCapsule", 201, requester, {id})
    /\ UNCHANGED <<today, sent, run, upd>>
    /\ UNCHANGED userVars

\* ------------------------------------------------------- GET /api/capsules
getCapsules(requester) ==
    /\ cev' = CapResponse("getCapsules", 200, requester,
                          {id \in Caps : capsules[id].sender = requester})
    /\ UNCHANGED <<capsules, today, sent, run, upd>>
    /\ UNCHANGED userVars

\* --------------------------------------------------- GET /api/capsules/:id
\* getCapsule answering for every capsule that exists
getCapsule_open(requester, id) ==
    /\ cev' = IF capsules[id] = NoCapsule
              THEN CapResponse("getCapsule", 404, requester, {})
              ELSE CapResponse("getCapsule", 200, requester, {id})
    /\ UNCHANGED <<capsules, today, sent, run, upd>>
    /\ UNCHANGED userVars

getCapsule(requester, id) ==
    /\ cev' = IF capsules[id] = NoCapsule
              THEN CapResponse("getCapsule", 404, requester, {})
              ELSE IF ~capsules[id].isPublic /\ capsules[id].sender # requester
              THEN CapResponse("getCapsule", 403, requester, {})
              ELSE CapResponse("getCapsule", 200, requester, {id})
    /\ UNCHANGED <<capsules, today, sent, run, upd>>
    /\ UNCHANGED userVars

\* ------------------------------------------------ GET /api/capsules/public
getPublicCapsules ==
    /\ cev' = CapResponse("getPublicCapsules", 200, Anyone,
                          {id \in Caps : /\ capsules[id].isPublic
                                         /\ capsules[id].status = "delivered"})
    /\ UNCHANGED <<capsules, today, sent, run, upd>>
    /\ UNCHANGED userVars

\* --------------------------------------------------- PUT /api/capsules/:id
\* The bodies a sender may put: validateCapsule sanitizes title, message and
\* recipient and checks deliveryDate; it removes no field.
Bodies ==
    { [path |-> "message", value |-> 2],
      [path |-> "isPublic", value |-> TRUE],
      [path |-> "status", value |-> "delivered"] }

\* findById and the three checks, up to findByIdAndUpdate.
updateCapsule_find(requester, id, body) ==
    /\ upd.pc = "idle"
    /\ LET reject(status) ==
               /\ cev' = CapResponse("updateCapsule", status, requester, {})
               /\ upd' = upd
       IN  IF capsules[id] = NoCapsule
           THEN reject(404)
           ELSE IF capsules[id].sender # requester
           THEN reject(403)
           ELSE IF capsules[id].status # "pending"
           THEN reject(400)
           ELSE /\ upd' = [pc |-> "update", id |-> id,
                           requester |-> requester, body |-> body]
                /\ cev' = NoCapEvent
    /\ UNCHANGED <<capsules, today, sent, run>>
    /\ UNCHANGED userVars

\* req.body applied to the stored capsule
applyBody(capsule, body) ==
    IF body.path = "message" THEN [capsule EXCEPT !.message = body.value]
    ELSE IF body.path = "isPublic" THEN [capsule EXCEPT !.isPublic = body.value]
    ELSE [capsule EXCEPT !.status = body.value]

\* await Capsule.findByIdAndUpdate(req.params.id, req.body, ...); 200
updateCapsule_update ==
    /\ upd.pc = "update"
    /\ capsules' = [capsules EXCEPT ![upd.id] = applyBody(@, upd.body)]
    /\ cev' = CapResponse("updateCapsule", 200, upd.requester, {upd.id})
    /\ upd' = IdleUpdate
    /\ UNCHANGED <<today, sent, run>>
    /\ UNCHANGED userVars

\* ----------------------------------------------- GET /api/capsules/deliver
\* The _ids of a set in the order find() returns them.
Ascending(ids) ==
    CHOOSE q \in [1..Cardinality(ids) -> ids] :
        \A i, j \in 1..Cardinality(ids) : i < j => q[i] < q[j]

\* Capsule.find({deliveryDate: {$lte: currentDate}, status: 'pending'})
Due ==
    {id \in Caps : /\ capsules[id].status = "pending"
                   /\ capsules[id].deliveryDate <= today}

deliverCapsules_find(r) ==
    /\ run[r].pc = "idle"
    /\ IF Due = {}
       THEN /\ cev' = CapResponse("deliverCapsules", 200, Anyone, {})
            /\ run' = run
       ELSE /\ run' = [run EXCEPT ![r] =
                         [ pc |-> "send", queue |-> Ascending(Due),
                           currentDate |-> today, selected |-> Due,
                           sentOk |-> {}, stamped |-> FALSE ]]
            /\ cev' = NoCapEvent
    /\ UNCHANGED <<capsules, today, sent, upd>>
    /\ UNCHANGED userVars

\* await transporter.sendMail(...) for the capsule at the head of the loop:
\* ok, or it throws into the catch block of the loop.
deliverCapsules_send(r, ok) ==
    /\ run[r].pc = "send"
    /\ LET id == Head(run[r].queue)
       IN  /\ sent[id] < MaxSent
           /\ IF ok
              THEN /\ sent' = [sent EXCEPT ![id] = @ + 1]
                   /\ run' = [run EXCEPT ![r].pc = "save",
                                         ![r].sentOk = @ \cup {id},
                                         ![r].stamped = TRUE]
              ELSE /\ sent' = sent
                   /\ run' = [run EXCEPT ![r].pc = "saveFailed"]
    /\ cev' = NoCapEvent
    /\ UNCHANGED <<capsules, today, upd>>
    /\ UNCHANGED userVars

\* The loop goes on to the next capsule, or the run answers 200.
NextCapsuleOf(r) ==
    IF Len(run[r].queue) = 1
    THEN /\ run' = [run EXCEPT ![r] = IdleRun]
         /\ cev' = CapResponse("deliverCapsules", 200, Anyone, {})
    ELSE /\ run' = [run EXCEPT ![r].pc = "send",
                               ![r].queue = Tail(@),
                               ![r].stamped = FALSE]
         /\ cev' = NoCapEvent

\* capsule.status = 'delivered'; capsule.deliveredAt = currentDate;
\* await capsule.save(): the save writes the two paths, or it rejects and
\* control passes to the catch block of the loop.
deliverCapsules_save(r, rejected) ==
    /\ run[r].pc = "save"
    /\ LET id == Head(run[r].queue)
       IN  IF rejected
           THEN /\ capsules' = capsules
                /\ run' = [run EXCEPT ![r].pc = "saveFailed"]
                /\ cev' = NoCapEvent
           ELSE /\ capsules' = [capsules EXCEPT ![id].status = "delivered",
                                                ![id].deliveredAt = run[r].currentDate]
                /\ NextCapsuleOf(r)
    /\ UNCHANGED <<today, sent, upd>>
    /\ UNCHANGED userVars

\* catch: capsule.status = 'failed'; await capsule.save(): the save writes
\* the paths assigned since the read, or it rejects into the catch block of
\* the handler, which answers 500.
deliverCapsules_saveFailed(r, rejected) ==
    /\ run[r].pc = "saveFailed"
    /\ LET id == Head(run[r].queue)
       IN  IF rejected
           THEN /\ capsules' = capsules
                /\ run' = [run EXCEPT ![r] = IdleRun]
                /\ cev' = CapResponse("deliverCapsules", 500, Anyone, {})
           ELSE /\ capsules' = [capsules EXCEPT
                                  ![id].status = "failed",
                                  ![id].deliveredAt =
                                      IF run[r].stamped THEN run[r].currentDate ELSE @]
                /\ NextCapsuleOf(r)
    /\ UNCHANGED <<today, sent, upd>>
    /\ UNCHANGED userVars

NextCapsule ==
    \/ capTick
    \/ \E requester \in Users, isPublic \in BOOLEAN : createCapsule(requester, isPublic)
    \/ \E requester \in Users : getCapsules(requester)
    \/ \E requester \in Users, id \in Caps : getCapsule(requester, id)
    \/ getPublicCapsules
    \/ \E requester \in Users, id \in Caps, body \in Bodies :
          updateCapsule_find(requester, id, body)
    \/ updateCapsule_update
    \/ \E r \in Runs : deliverCapsules_find(r)
    \/ \E r \in Runs, ok \in BOOLEAN : deliverCapsules_send(r, ok)
    \/ \E r \in Runs, rejected \in BOOLEAN : deliverCapsules_save(r, rejected)
    \/ \E r \in Runs, rejected \in BOOLEAN : deliverCapsules_saveFailed(r, rejected)

\* The capsule routes, their requests and the delivery runs interleaving.
SpecCapsule == Init /\ [][NextCapsule]_vars

\* ============================================================ properties
UsedFlags(u) == [i \in 1..Len(u.twoFactorBackupCodes) |-> u.twoFactorBackupCodes[i].used]
IsValidUnused(u, backupCode) ==
    \E i \in 1..Len(u.twoFactorBackupCodes) :
        /\ bcryptCompare(backupCode, u.twoFactorBackupCodes[i].code)
        /\ ~u.twoFactorBackupCodes[i].used

\* ---- C1
\* The fifth failure of the run writes the lock, dated from its own time.
C1_FifthFailureLocks ==
    [][\A p \in Procs :
          (loginUser_increment(p) /\ streak = 4)
              => user'.lockUntil = now + 60 * 60 * 1000 /\ user'.accountLocked]_vars

\* After the fifth failure the lock is stored.
C1_LockedAfterFive ==
    [](streak = 5 => user.lockUntil # Null /\ user.accountLocked)

\* While lockUntil is in the future no loginUser call gets past the check
\* (none goes on to the password's outcome), and its answer is the 401.
C1_LockedLoginRejected ==
    [][( /\ user.lockUntil # Null /\ user.lockUntil > now
         /\ \/ \E p \in Procs : pc[p] = "idle" /\ pc'[p] \in {"increment", "reset"}
            \/ pc' = pc /\ ev'.op = "loginUser" )
          => /\ ev'.status = 401 /\ ~ev'.token
             /\ pc' = pc /\ user' = user]_vars

\* C1: starting from the unlocked user with loginAttempts = 0 (no lockUntil
\* stored), after five wrong-password loginUser calls in a row the account
\* is locked, the fifth failure having set lockUntil to its own time + 1
\* hour; and a loginUser call made while lockUntil is in the future is
\* rejected whatever the password, leaving the document as it is.
C1_LockoutAfterFiveFailures ==
    C1_FifthFailureLocks /\ C1_LockedAfterFive /\ C1_LockedLoginRejected

\* five failures in a row, the last of them a millisecond after the first,
\* have locked the account, and a login made during the lock has just been
\* turned away
C1_Witness ==
    /\ streak = 5
    /\ user.lockUntil = StartTime + 1 + LockDuration
    /\ user.lockUntil > now
    /\ ev.op = "loginUser" /\ ev.msg = "locked"

\* ---- C2
\* A step of a login handler (password step or second-factor step).
LoginStep ==
    \E p \in Procs :
        \/ \E password \in Passwords : loginUser_find(p, password)
        \/ loginUser_increment(p)
        \/ loginUser_reset(p)
        \/ \E token \in Tokens(user.twoFactorSecret, now) \cup {NoToken},
                 backupCode \in SubmittedCodes \cup {NoCode} :
              verify2FALogin_find(p, token, backupCode)
        \/ verify2FALogin_save(p)
        \/ verify2FALogin_reset(p)

\* C2: while lockUntil is in the future no step of loginUser or of
\* verify2FALogin issues a JWT or changes loginAttempts, lockUntil or
\* accountLocked.
C2_LockedRejectsEveryLogin ==
    [][(LoginStep /\ user.lockUntil # Null /\ user.lockUntil > now)
          => ~ev'.token /\ LockFields(user') = LockFields(user)]_vars

\* ---- C3
\* C3: for a user with twoFactorEnabled a JWT comes from verify2FALogin
\* alone, and verify2FALogin issues one only after some loginUser call has
\* passed the password check and answered twoFactorRequired.
C3_TokenOnlyAfterPasswordStep ==
    [][\A p \in Procs :
          /\ verify2FALogin_reset(p) => pwStepDone
          /\ (loginUser_reset(p) /\ user.twoFactorEnabled) => ~ev'.token]_vars

\* ---- C4
\* C4: the verify2FALogin call that follows the acceptance of a backup code
\* and carries the same code is rejected; and a stored entry's used flag
\* never goes from true back to false.
C4_BackupCodeSingleUse ==
    [][/\ \A p \in Procs, backupCode \in SubmittedCodes :
            ( /\ ev.op = "verify2FALogin" /\ ev.token /\ ev.codes = <<backupCode>>
              /\ verify2FALogin_find(p, NoToken, backupCode) )
                => pc'[p] = "idle" /\ ev'.status = 400
       /\ \A i \in 1..Len(user.twoFactorBackupCodes) :
            ( /\ i <= Len(user'.twoFactorBackupCodes)
              /\ user'.twoFactorBackupCodes[i].code = user.twoFactorBackupCodes[i].code
              /\ user.twoFactorBackupCodes[i].used )
                => user'.twoFactorBackupCodes[i].used]_vars

\* ---- C5
\* C5: of the verify2FALogin requests in flight together with the same
\* backup code only one is answered with a token: when one is, no other has
\* passed the check with that code and is about to be answered with one too.
C5_ConcurrentBackupCodeOnce ==
    [][\A p \in Procs :
          (verify2FALogin_reset(p) /\ doc[p].backupCode # NoCode)
              => ~\E q \in Procs \ {p} :
                    /\ pc[q] = "reset2fa"
                    /\ doc[q].backupCode = doc[p].backupCode]_vars

\* ---- C6
\* C6: a verify2FALogin call whose backupCode matches no stored unused entry
\* is rejected on the spot: no token, no used flag changed.
C6_UnmatchedBackupCodeRejected ==
    [][\A p \in Procs, backupCode \in SubmittedCodes :
          ( /\ verify2FALogin_find(p, NoToken, backupCode)
            /\ ~IsValidUnused(user, backupCode) )
              => /\ pc'[p] = "idle" /\ ev'.status = 400 /\ ~ev'.token
                 /\ UsedFlags(user') = UsedFlags(user)]_vars

\* ---- C7
\* The first stored entry (from 1) whose hash matches the code and whose used
\* flag is false, 0 when there is none.
FirstValidUnused(u, backupCode) ==
    LET hits == {i \in 1..Len(u.twoFactorBackupCodes) :
                    /\ bcryptCompare(backupCode, u.twoFactorBackupCodes[i].code)
                    /\ ~u.twoFactorBackupCodes[i].used}
    IN  IF hits = {} THEN 0 ELSE CHOOSE i \in hits : \A j \in hits : i <= j

\* C7: the save of an accepted backup code sets used = true on the first
\* stored entry whose hash matches the submitted code and whose used flag was
\* false, and changes nothing else; the token is answered only after it.
C7_MarksFirstMatchingEntry ==
    [][\A p \in Procs :
          /\ (verify2FALogin_save(p) /\ pc'[p] = "reset2fa")
                => LET i == FirstValidUnused(user, doc[p].backupCode)
                   IN  /\ i # 0
                       /\ user' = [user EXCEPT !.twoFactorBackupCodes[i].used = TRUE]
          /\ (verify2FALogin_reset(p) /\ doc[p].backupCode # NoCode)
                => \E i \in 1..Len(user.twoFactorBackupCodes) :
                      user.twoFactorBackupCodes[i].used]_vars

\* ---- C8
\* C8: the backupCodes a successful verify2FAToken returns are the codes
\* whose hashes it stored, position by position.
C8_ReturnedCodesMatchStored ==
    [][\A p \in Procs, seed2 \in Draws :
          verify2FAToken_update(p, seed2)
              => /\ Len(ev'.codes) = 10
                 /\ \A i \in 1..10 :
                       bcryptCompare(ev'.codes[i], user'.twoFactorBackupCodes[i].code)]_vars

\* ---- C9
\* The call goes on to the update only with the pending secret in hand and
\* nothing written; the update writes the three fields together, after which
\* the session slot is empty and the 200 is sent.
C9_UpdateWritesAllThree ==
    [][\A p \in Procs :
          /\ (pc[p] = "idle" /\ pc'[p] = "enable")
                => session # Null /\ doc'[p].secret = session /\ user' = user
          /\ (pc[p] = "enable" /\ pc'[p] = "idle")
                => /\ user'.twoFactorSecret = doc[p].secret
                   /\ user'.twoFactorEnabled
                   /\ Len(user'.twoFactorBackupCodes) = 10
                   /\ \A i \in 1..10 : ~user'.twoFactorBackupCodes[i].used
                   /\ session' = Null
                   /\ ev'.op = "verify2FAToken" /\ ev'.status = 200]_vars

\* In every state, between the steps of the handlers too, the three fields
\* are all written or all blank.
C9_NoPartialState ==
    [](/\ user.twoFactorEnabled <=> user.twoFactorSecret # Null
       /\ user.twoFactorEnabled <=> Len(user.twoFactorBackupCodes) = 10
       /\ Len(user.twoFactorBackupCodes) \in {0, 10})

C10_InvalidCodeChangesNothing ==
    [][/\ \A p \in Procs :
            (pc[p] = "idle" /\ pc'[p] = "enable")
                => /\ session # Null
                   /\ \A token \in Tokens(session, now) \cup {NoToken} :
                         (\A d \in {-1, 0, 1} : token # TotpCode(session, TotpStep(now) + d))
                             => \A seed \in Draws : ~verify2FAToken_verify(p, token, seed)
       /\ (pc' = pc /\ ev'.op = "verify2FAToken")
            => ev'.status = 400 /\ user' = user]_vars

\* a code two steps off has just been refused while a secret was pending
C10_Witness ==
    /\ ev.op = "verify2FAToken" /\ ev.status = 400 /\ ev.msg = "invalid"
    /\ session # Null
    /\ ~user.twoFactorEnabled

\* ---- C11
\* C11: after verify2FAToken has refused a code as invalid, the session
\* holds no pending secret any more, so that a following verify2FAToken
\* finds none.
C11_FailedVerifyDiscardsSecret ==
    (ev.op = "verify2FAToken" /\ ev.status = 400 /\ ev.msg = "invalid")
        => session = Null

\* ---- C12
\* C12: generate2FASecret writes the pending secret of the session and
\* nothing of the user record, however often it is called and whatever the
\* record holds.
C12_GenerateWritesSessionOnly ==
    [][(pc' = pc /\ ev'.op = "generate2FASecret")
          => /\ user' = user
             /\ doc' = doc
             /\ session' \in Secrets]_vars

\* a secret has just been generated for a user whose 2FA is already on
C12_Witness ==
    /\ ev.op = "generate2FASecret" /\ ev.status = 200
    /\ session \in Secrets
    /\ user.twoFactorEnabled /\ user.twoFactorSecret \in Secrets

\* ---- C13
\* C13: in every reachable state, whatever the interleaving of logins,
\* enrollments, 2FA logins, disables and profile updates, a record with
\* twoFactorEnabled set has a twoFactorSecret.
C13_EnabledHasSecret ==
    user.twoFactorEnabled => user.twoFactorSecret # Null

\* a disable that read the record before an enrollment completed has just
\* saved after it: the record is still enabled
C13_Witness ==
    /\ ev.op = "disable2FA" /\ ev.status = 200
    /\ user.twoFactorEnabled /\ user.twoFactorSecret \in Secrets

\* ---- C14
\* The step of loginUser that records p's wrong password.
FailureStep(p) == pc[p] = "increment" /\ pc'[p] = "idle"

\* C14: a wrong-password loginUser on a user who is not locked and has no
\* expired lock raises loginAttempts by exactly 1; if the new value is 5 or
\* more it sets accountLocked and lockUntil = the current time + 1 hour, if
\* it is below 5 it leaves accountLocked and lockUntil as they were; the
\* answer is the invalid-credentials 401 without a token.
C14_FailureCountsOne ==
    [][\A p \in Procs :
          ( /\ FailureStep(p)
            /\ ~isLocked(user, now)
            /\ ~(user.lockUntil # Null /\ user.lockUntil < now) )
              => /\ user'.loginAttempts = user.loginAttempts + 1
                 /\ user'.loginAttempts >= 5
                      => user'.accountLocked /\ user'.lockUntil = now + 60 * 60 * 1000
                 /\ user'.loginAttempts < 5
                      => /\ user'.accountLocked = user.accountLocked
                         /\ user'.lockUntil = user.lockUntil
                 /\ ev'.op = "loginUser" /\ ev'.status = 401
                 /\ ev'.msg = "invalid" /\ ~ev'.token]_vars

\* the failure that took the count to 5 has just been answered
C14_Witness ==
    /\ ev.op = "loginUser" /\ ev.msg = "invalid"
    /\ user.loginAttempts = 5 /\ user.accountLocked
    /\ user.lockUntil = now + LockDuration

\* ---- C15
\* C15: the first wrong-password loginUser after lockUntil has passed sets
\* loginAttempts to 1 and clears lockUntil and accountLocked; from there a
\* failure writes a new lock only when it takes the count to 5, that is
\* after four further failures.
C15_ExpiredLockRestartsCount ==
    [][\A p \in Procs :
          /\ ( /\ FailureStep(p)
               /\ user.lockUntil # Null /\ user.lockUntil < now )
                 => /\ user'.loginAttempts = 1
                    /\ user'.lockUntil = Null
                    /\ ~user'.accountLocked
          /\ ( /\ FailureStep(p)
               /\ user'.lockUntil # Null /\ user'.lockUntil # user.lockUntil )
                 => user.loginAttempts >= 4 /\ user'.loginAttempts >= 5]_vars

\* the lock has expired, a failure has restarted the count and four more
\* have locked the account again
C15_Witness ==
    /\ now = StartTime + LockDuration + 1
    /\ ev.op = "loginUser" /\ ev.msg = "invalid"
    /\ user.loginAttempts = 5
    /\ user.lockUntil = now + LockDuration

\* ---- C16
\* C16: when a login has issued a JWT (loginUser for a user without 2FA,
\* verify2FALogin for a user with 2FA) and nothing ran in between, the
\* record has loginAttempts = 0, no lockUntil, accountLocked = false and
\* lastLogin = the time of that request.
C16_TokenResetsLockFields ==
    (ev.token /\ ev.op \in {"loginUser", "verify2FALogin"})
        => /\ user.loginAttempts = 0
           /\ user.lockUntil = Null
           /\ ~user.accountLocked
           /\ user.lastLogin = now

\* a 2FA login has just issued a token, later than the registration
C16_Witness ==
    /\ ev.token /\ ev.op = "verify2FALogin"
    /\ user.lastLogin = now /\ now > StartTime
    /\ user.loginAttempts = 0

\* ---- C17
\* C17: a loginUser call made on a locked account gets the response, status
\* and message, that a wrong password gets on an unlocked account.
C17_LockedAnswersLikeWrongPassword ==
    [][(pc' = pc /\ ev'.op = "loginUser" /\ isLocked(user, now))
          => ev' = Response("loginUser", 401, "invalid", FALSE)]_vars

\* ---- C18
\* C18: whatever the interleaving of concurrent wrong-password loginUser
\* calls, once the calls have completed no state has loginAttempts at 5 or
\* more with lockUntil unset.
C18_FiveFailuresAlwaysLock ==
    Quiet(pc) => ~(user.loginAttempts >= 5 /\ user.lockUntil = Null)

\* ---- C19
\* The proofs of a disable2FA request, against the stored record.
ValidToken(token) ==
    /\ token # NoToken /\ user.twoFactorSecret # Null
    /\ \E d \in {-1, 0, 1} : token = TotpCode(user.twoFactorSecret, TotpStep(now) + d)
ValidPassword(password) ==
    password # 0 /\ user.password = bcryptHash(password)
DisableTokens == Tokens(user.twoFactorSecret, now) \cup {NoToken}
TwoFactorFields(u) ==
    <<u.twoFactorEnabled, u.twoFactorSecret, u.twoFactorBackupCodes>>

\* C19: a disable2FA call in which neither the token nor the password is
\* valid fails and leaves twoFactorEnabled, twoFactorSecret and
\* twoFactorBackupCodes as they were: no such call goes on to the save, and
\* a call that does not go on answers with an error and writes nothing.
C19_NoProofNoDisable ==
    [][/\ \A p \in Procs :
            (pc[p] = "idle" /\ pc'[p] = "disable")
                => \A token \in DisableTokens, password \in Passwords \cup {0} :
                      (~ValidToken(token) /\ ~ValidPassword(password))
                          => \A threw \in BOOLEAN :
                                ~disable2FA_find(p, token, password, threw)
       /\ (pc' = pc /\ ev'.op = "disable2FA")
            => /\ ev'.status # 200
               /\ TwoFactorFields(user') = TwoFactorFields(user)]_vars

\* a wrong password and a stale code have just been refused, 2FA still on
C19_Witness ==
    /\ ev.op = "disable2FA" /\ ev.status = 400 /\ ev.msg = "failed"
    /\ user.twoFactorEnabled /\ user.twoFactorSecret \in Secrets
    /\ Len(user.twoFactorBackupCodes) = NumBackupCodes

\* ---- C20
\* C20: a disable2FA call in which the token or the password is valid
\* succeeds, whatever the other proof is; its save leaves twoFactorEnabled
\* false, no twoFactorSecret and no backup codes; and while twoFactorEnabled
\* is false verify2FALogin refuses every token and every backup code.
C20_EitherProofDisables ==
    [][\A p \in Procs :
          /\ \A token \in DisableTokens, password \in Passwords \cup {0},
                threw \in BOOLEAN :
                ( /\ ValidToken(token) \/ ValidPassword(password)
                  /\ disable2FA_find(p, token, password, threw) )
                    => pc'[p] = "disable"
          /\ (pc[p] = "disable" /\ pc'[p] = "idle")
                => /\ ev'.op = "disable2FA" /\ ev'.status = 200
                   /\ TwoFactorFields(user') = <<FALSE, Null, <<>> >>
          /\ ~user.twoFactorEnabled
                => /\ pc[p] = "idle" => pc'[p] \notin {"save", "reset2fa"}
                   /\ (pc' = pc /\ ev'.op = "verify2FALogin")
                        => ev'.status = 400 /\ ~ev'.token]_vars

\* ---- C21
\* C21: verify2FALogin for a user whose twoFactorEnabled is false is refused
\* whatever token or backup code is submitted: the call does not go on to a
\* write, it is answered 400 without a token, and the user record, lock
\* fields and lastLogin included, is as it was.
C21_NotEnabledRejected ==
    [][~user.twoFactorEnabled
          => /\ \A p \in Procs :
                   pc[p] = "idle" => pc'[p] \notin {"save", "reset2fa"}
             /\ (pc' = pc /\ ev'.op = "verify2FALogin")
                   => /\ ev'.status = 400 /\ ~ev'.token
                      /\ user' = user]_vars

\* a 2FA login has just been refused for a user who failed a password
\* login before and has no 2FA
C21_Witness ==
    /\ ev.op = "verify2FALogin" /\ ev.status = 400 /\ ev.msg = "not enabled"
    /\ ~user.twoFactorEnabled
    /\ user.loginAttempts > 0

\* ---- C22
\* The codes speakeasy accepts for the pending secret at the current time.
CurrentCodes == {TotpCode(session, TotpStep(now) + d) : d \in {-1, 0, 1}}

C26_Refused2FAKeepsLockFields ==
    [][(pc' = pc /\ ev'.op = "verify2FALogin" /\ ev'.status = 400)
          => LockFields(user') = LockFields(user)]_vars

\* a wrong code has just been refused for a user with 2FA on and four
\* password failures on record
C26_Witness ==
    /\ ev.op = "verify2FALogin" /\ ev.status = 400 /\ ev.msg = "invalid"
    /\ user.twoFactorEnabled
    /\ user.loginAttempts = 4 /\ user.lockUntil = Null

\* ---- C24
\* C24: the lock test and the expiry test agree at every instant: a wrong
\* password that gets past the lock test of a user with lockUntil set is
\* treated as meeting an expired lock (loginAttempts 1, lock cleared); at
\* t = lockUntil in particular it neither raises the counter nor starts a
\* new lock.
C24_LockTestsAgree ==
    [][\A p \in Procs :
          (FailureStep(p) /\ user.lockUntil # Null)
              => /\ user'.loginAttempts = 1
                 /\ user'.lockUntil = Null
                 /\ ~user'.accountLocked]_vars

\* ---- C25
\* accountLocked is set exactly when lockUntil is.
C25_FlagMatchesLockUntil ==
    [](user.accountLocked <=> user.lockUntil # Null)

\* Only the last step of a password login or of a 2FA login (the updates of
\* incrementLoginAttempts and resetLoginAttempts) changes either field.
C25_OnlyLoginWritesLock ==
    [][(user'.lockUntil # user.lockUntil \/ user'.accountLocked # user.accountLocked)
          => \E p \in Procs :
                /\ pc[p] \in {"increment", "reset", "reset2fa"}
                /\ pc'[p] = "idle"]_vars

\* C25: in every reachable state of the user record accountLocked is true
\* exactly when lockUntil is set: incrementLoginAttempts and
\* resetLoginAttempts write the two together, and no other operation
\* (profile update, enrollment, disable, 2FA login before its reset) writes
\* either.
C25_LockFlagConsistent ==
    C25_FlagMatchesLockUntil /\ C25_OnlyLoginWritesLock

\* the account is locked while a profile update that read the record before
\* the lock is about to save
C25_Witness ==
    /\ user.accountLocked /\ user.lockUntil # Null
    /\ \E p \in Procs : pc[p] = "profile" /\ doc[p].password # 0

\* ---- C23
\* The write the login handler in slot p is waiting on.
IntendedWrite(p) ==
    IF pc[p] = "increment" THEN incrementLoginAttempts(doc[p], user, now)
    ELSE IF pc[p] = "save" THEN markUsed(user, doc[p].idx)
    ELSE resetLoginAttempts(user, now)

\* The handler in slot p moves on although its write did not reach the
\* record.
FailedWrite(p) ==
    /\ pc[p] \in LoginWrites /\ pc'[p] # pc[p]
    /\ user' = user
    /\ IntendedWrite(p) # user

\* C23: when the write a login makes fails (the update of
\* incrementLoginAttempts or of resetLoginAttempts, the save that marks a
\* backup code), the request ends there with a 500 and no token; and a
\* login issues its token only on the step on which resetLoginAttempts
\* has written.
C23_FailedWriteIsAnError ==
    [][/\ \A p \in Procs :
            FailedWrite(p)
                => /\ pc'[p] = "idle"
                   /\ ev'.op = HandlerOf(pc[p])
                   /\ ev'.status = 500 /\ ~ev'.token
       /\ (ev'.token /\ ev'.op \in {"loginUser", "verify2FALogin"})
            => user' = resetLoginAttempts(user, now)]_vars

\* the update that would have written the fifth failure has just been
\* refused
C23_Witness ==
    /\ ev.op = "loginUser" /\ ev.status = 500
    /\ user.loginAttempts = 4 /\ user.lockUntil = Null

\* ---- C27
\* C27: across every sequence and interleaving of deliverCapsules runs each
\* capsule is emailed at most once.
C27_EmailedAtMostOnce ==
    \A id \in Caps : sent[id] <= 1

\* ---- C28
\* Run r answers on this step.
RunCompletes(r) == run[r].pc # "idle" /\ run'[r].pc = "idle"

\* C28: a deliverCapsules run selects, and sends an email for, only capsules
\* that are pending and due at the time of the run; when it completes, each
\* capsule it selected is 'delivered' with deliveredAt set if its email was
\* sent and 'failed' if not, and none is left 'pending'.
C28_RunMarksWhatItSent ==
    [][\A r \in Runs :
          /\ (run[r].pc = "idle" /\ run'[r].pc = "send")
                => \A id \in run'[r].selected :
                      /\ capsules[id].status = "pending"
                      /\ capsules[id].deliveryDate <= today
          /\ (run[r].pc = "send" /\ run'[r] # run[r] /\ sent' # sent)
                => /\ Head(run[r].queue) \in run[r].selected
                   /\ sent' = [sent EXCEPT ![Head(run[r].queue)] = @ + 1]
          /\ RunCompletes(r)
                => \A id \in run[r].selected :
                      IF id \in run[r].sentOk
                      THEN /\ capsules'[id].status = "delivered"
                           /\ capsules'[id].deliveredAt # Null
                      ELSE capsules'[id].status = "failed"]_vars

\* ---- C29
\* C29: updateCapsule changes a capsule only when the requester is its
\* sender and the capsule is 'pending' at the moment the update is applied,
\* also when a delivery run is under way; and a capsule becomes 'delivered'
\* only by the save of a deliverCapsules run.
C29_UpdateOnlyWhilePending ==
    [][/\ (upd.pc = "update" /\ upd'.pc = "idle" /\ capsules' # capsules)
            => /\ capsules[upd.id].sender = upd.requester
               /\ capsules[upd.id].status = "pending"
       /\ \A id \in Caps :
            (capsules[id].status # "delivered" /\ capsules'[id].status = "delivered")
                => \E r \in Runs : run[r].pc = "save" /\ Head(run[r].queue) = id]_vars

\* ---- C30
\* Every response that carries a private capsule goes to its sender; the
\* list of getCapsules holds the requester's own capsules, the list of
\* getPublicCapsules capsules that are public and delivered.
C30_ResponsesKeepPrivate ==
    /\ \A id \in cev.data :
          ~capsules[id].isPublic => capsules[id].sender = cev.requester
    /\ cev.op = "getCapsules"
          => \A id \in cev.data : capsules[id].sender = cev.requester
    /\ cev.op = "getPublicCapsules"
          => \A id \in cev.data :
                capsules[id].isPublic /\ capsules[id].status = "delivered"

\* getCapsule for the private capsule of another user answers 403 and
\* carries nothing.
C30_OthersAreRefused ==
    [][\A requester \in Users, id \in Caps :
          ( /\ capsules[id] # NoCapsule /\ ~capsules[id].isPublic
            /\ capsules[id].sender # requester
            /\ getCapsule(requester, id) )
              => cev'.status = 403 /\ cev'.data = {}]_vars

====
